---- MODULE Spec2Model ----
(***************************************************************************)
(* Binary FBX event parser of fbxcel: the header/footer protocol and the   *)
(* node-header codec of src/parser/binary/event/mod.rs, driven by the pull *)
(* parser's next_event.                                                    *)
(*                                                                         *)
(* The byte source is forward-only.  Every operation is offered the bytes  *)
(* that are still unread (a finite window `src`, possibly shorter than the *)
(* operation needs, which is a truncated stream) and consumes a prefix of  *)
(* them; `pos` is CountReader::count().                                    *)
(*                                                                         *)
(* Integers: a u32 x is held as the integer of -2^31 .. 2^31-1 congruent   *)
(* to x modulo 2^32 (the integers of TLC are 32 bits wide), compared as    *)
(* unsigned by u32_lt; a u64 is the pair [hi, lo] of its two 32-bit halves.*)
(***************************************************************************)
EXTENDS Integers, Sequences, FiniteSets, TLC

VARIABLES
    pos,          \* parser.source.count(): bytes consumed so far
    fbx_version,  \* parser.fbx_version: None or Some(u32)
    warnings,     \* warnings collected by parser.warn(..)
    state,        \* BeforeHeader | InDocument | AfterFooter | Failed | Panicked
    depth,        \* number of open nodes
    nodes,        \* number of real node headers read so far
    op,           \* the operation that ran last
    kind,         \* how it ended: Ok, or the error it returned, or Panic
    inp,          \* the unread bytes it was offered
    pos0,         \* pos when it was called
    used,         \* the number of bytes it consumed
    out,          \* the value it returned (NoValue when it returned none)
    event,        \* the event next_event returned last (NoEvent: none)
    hdr,          \* the node header decoded last (NoValue: none)
    stack,        \* the open nodes, outermost first: end_offset, and whether a
                  \* subtree parser was obtained for the node
    attr,         \* the attributes of the node started last: None once another
                  \* event was pulled, not live once the parser was borrowed again
    handle,       \* the SpecialAttribute that borrows the parser: None or Some
    ends,         \* number of EndNode events returned so far
    skipped,      \* number of nodes closed by skip_current_node so far
    frames,       \* the record loaders that are running, outermost first
    doc,          \* for each of them, the children its parser has delivered
    lop,          \* the loader step taken last
    lev,          \* the event the loader pulled last
    lres,         \* the result of the load that returned last
    calls,        \* for each running loader, the calls it made on its parser
    order         \* the order of the children in the sample documents

vars == <<pos, fbx_version, warnings, state, depth, nodes, op, kind, inp, pos0, used, out,
          event, hdr, stack, attr, handle, ends, skipped,
          frames, doc, lop, lev, lres, calls, order>>

\* the state of the open nodes and their attributes
nodeVars == <<stack, attr, handle, ends, skipped>>

\* the state of the record loaders
loaderVars == <<frames, doc, lop, lev, lres, calls, order>>

NoEvent == "NoEvent"

None == <<>>
Some(v) == <<v>>
unwrap(o) == o[1]

\* an operation that returned no value
NoValue == [none |-> TRUE]

\* ------------------------------------------------------------------ bounds
MaxNodes == 3
MaxDepth == 2
MaxNameLen == 3
\* attributes read per node, and reads through one attribute's reader()
MaxAttrs == 2
MaxReads == 1
\* the longest run of bytes a sample source holds to be skipped or drained
SkipMax == 64

\* ------------------------------------------------------------ byte helpers
RECURSIVE Rep(_, _)
Rep(b, n) == IF n <= 0 THEN <<>> ELSE <<b>> \o Rep(b, n - 1)

Take(s, n) == SubSeq(s, 1, IF n < Len(s) THEN n ELSE Len(s))

\* ReadBytesExt::read_u32::<LittleEndian>
read_u32(b) ==
    b[1] + b[2] * 256 + b[3] * 65536 + (IF b[4] < 128 THEN b[4] ELSE b[4] - 256) * 16777216

\* a < b for two u32
u32_lt(a, b) == IF (a < 0) = (b < 0) THEN a < b ELSE b < 0

\* ReadBytesExt::read_u64::<LittleEndian>, as its two 32-bit halves
read_u64(b) == [lo |-> read_u32(SubSeq(b, 1, 4)), hi |-> read_u32(SubSeq(b, 5, 8))]

\* `x as u64` for x: u32
as_u64(x) == [lo |-> x, hi |-> 0]

\* what a producer writes for a u32 / u64
le32(x) == << x % 256, (x \div 256) % 256, (x \div 65536) % 256, (x \div 16777216) % 256 >>
le64(v) == le32(v.lo) \o le32(v.hi)

\* ------------------------------------------------------------- FBX header
MAGIC_LEN == 21
MAGIC == << 75, 97, 121, 100, 97, 114, 97, 32, 70, 66, 88, 32,
            66, 105, 110, 97, 114, 121, 32, 32, 0 >>
UNKNOWN_BYTES_LEN == 2
UNKNOWN_BYTES == << 26, 0 >>
HEADER_LEN == MAGIC_LEN + UNKNOWN_BYTES_LEN + 4

HeaderRet(k, n, w, v) == [kind |-> k, consumed |-> n, warn |-> w, version |-> v]

\* mutant: only the first marker byte is compared
MarkerMismatch_FirstByte(buf) == buf[1] # UNKNOWN_BYTES[1]

\* the marker comparison of read_fbx_header
MarkerMismatch(buf) == buf # UNKNOWN_BYTES

\* mutant: the terminating NUL of the magic is not compared
MagicMismatch_NoNul(buf) == SubSeq(buf, 1, MAGIC_LEN - 1) # SubSeq(MAGIC, 1, MAGIC_LEN - 1)

\* the magic comparison of read_fbx_header
MagicMismatch(buf) == buf # MAGIC

\* mutant: the assertion is missing
HeaderReadOnce_NoAssert(ver) == TRUE

\* the `assert!(parser.fbx_version.is_none(), ..)` of read_fbx_header
HeaderReadOnce(ver) == ver = None

\* read_fbx_header on a parser whose fbx_version is `ver`, offered `src`
read_fbx_header(src, ver) ==
    IF ~HeaderReadOnce(ver) THEN HeaderRet("Panic", 0, <<>>, 0)
    ELSE IF Len(src) < MAGIC_LEN THEN HeaderRet("Io", Len(src), <<>>, 0)
    ELSE IF MagicMismatch(SubSeq(src, 1, MAGIC_LEN))
         THEN HeaderRet("MagicNotDetected", MAGIC_LEN, <<>>, 0)
    ELSE IF Len(src) < MAGIC_LEN + UNKNOWN_BYTES_LEN THEN HeaderRet("Io", Len(src), <<>>, 0)
    ELSE LET buf == SubSeq(src, MAGIC_LEN + 1, MAGIC_LEN + UNKNOWN_BYTES_LEN)
             w == IF MarkerMismatch(buf) THEN <<"UnexpectedBytesAfterMagic">> ELSE <<>>
         IN  IF Len(src) < HEADER_LEN THEN HeaderRet("Io", Len(src), w, 0)
             ELSE HeaderRet("Ok", HEADER_LEN, w,
                            read_u32(SubSeq(src, MAGIC_LEN + UNKNOWN_BYTES_LEN + 1, HEADER_LEN)))

\* sample header inputs
MagicSamples ==
    {MAGIC} \cup { [MAGIC EXCEPT ![i] = b] : i \in {1, 11, 21}, b \in {0, 26, 75} }
MarkerSamples == { <<26, 0>>, <<0, 0>>, <<26, 1>>, <<0, 26>>, <<27, 0>> }
VersionSamples == {7400, 7499, 7500}
HeaderLenSamples == {0, 20, 21, 22, 23, 26, 27, 28}
HeaderInputs ==
    { Take(m \o k \o le32(v) \o <<0>>, n) :
        m \in MagicSamples, k \in MarkerSamples, v \in VersionSamples, n \in HeaderLenSamples }


\* ------------------------------------------------------------ node header
\* version from which node headers hold u64 fields
WIDE_VERSION == 7500
U32_LEN == 4
U64_LEN == 8

U64IsZero(v) == v.lo = 0 /\ v.hi = 0
\* v >= n, for a position n below 2^31
U64Ge(v, n) == v.hi # 0 \/ ~u32_lt(v.lo, n)

NodeHeader(eo, na, la, ln) ==
    [end_offset |-> eo, num_attributes |-> na, len_attributes |-> la, len_name |-> ln]

\* mutant: the name length is not looked at
is_node_end_NoName(h) ==
    U64IsZero(h.end_offset) /\ U64IsZero(h.num_attributes) /\ U64IsZero(h.len_attributes)

\* mutant: the test leaves out end_offset
is_node_end_NoEnd(h) ==
    /\ U64IsZero(h.num_attributes)
    /\ U64IsZero(h.len_attributes)
    /\ h.len_name = 0

\* NodeHeader::is_node_end
is_node_end(h) ==
    U64IsZero(h.end_offset) /\ U64IsZero(h.num_attributes) /\ U64IsZero(h.len_attributes)
        /\ h.len_name = 0

\* mutant: version 7500 itself is still read with u32 fields
NarrowFields_Inclusive(v) == ~u32_lt(WIDE_VERSION, v)

\* the `fbx_version < 7500` of NodeHeader::read_from_parser
NarrowFields(v) == u32_lt(v, WIDE_VERSION)

\* width in bytes of one of the three leading fields
FieldLen(v) == IF NarrowFields(v) THEN U32_LEN ELSE U64_LEN

\* the field-th (0, 1, 2) leading field of the header bytes
ReadField(src, v, field) ==
    IF NarrowFields(v)
    THEN as_u64(read_u32(SubSeq(src, field * U32_LEN + 1, (field + 1) * U32_LEN)))
    ELSE read_u64(SubSeq(src, field * U64_LEN + 1, (field + 1) * U64_LEN))

NodeRet(k, n, h) == [kind |-> k, consumed |-> n, hdr |-> h]

\* NodeHeader::read_from_parser on a parser whose fbx_version is `ver`, offered `src`
NodeHeader_read_from_parser(src, ver) ==
    IF ver = None THEN NodeRet("Panic", 0, NoValue)
    ELSE LET v == unwrap(ver)
             need == 3 * FieldLen(v) + 1
         IN  IF Len(src) < need THEN NodeRet("Io", Len(src), NoValue)
             ELSE NodeRet("Ok", need,
                          NodeHeader(ReadField(src, v, 0), ReadField(src, v, 1),
                                     ReadField(src, v, 2), src[need]))

\* ----------------------------------------------------------------- footer
UNKNOWN1_LEN == 16
UNKNOWN2_LEN == 16
BUF_LEN == 144
\* the scan of the buffer's tail stops after this many non-zero bytes
SCAN_LIMIT == 16
\* 20 - partial_footer2_len is the offset of the version in the buffer
VER_BASE == 20

RECURSIVE BitAnd(_, _)
BitAnd(a, b) ==
    IF a = 0 \/ b = 0 THEN 0
    ELSE (a % 2) * (b % 2) + 2 * BitAnd(a \div 2, b \div 2)

\* mutant: the outer mask is missing
ExpectedPaddingLen_NoMask(count) == 16 - BitAnd(count, 15)

\* ((16 - (parser.source.count() & 0x0f)) & 0x0f) as usize
ExpectedPaddingLen(count) == BitAnd(16 - BitAnd(count, 15), 15)

\* mutant: the scan stops one byte early
ScanBound_Strict(count) == count < SCAN_LIMIT

\* the loop condition `(buf[BUF_LEN - 1 - count] != 0) && count <= 16`
ScanBound(count) == count <= SCAN_LIMIT

\* the `while` of FbxFooter::read_from_parser, from `count`; an index outside the
\* buffer panics.  [count, panic, low]: low is the lowest 0-based index read
RECURSIVE ScanTail(_, _)
ScanTail(buf, count) ==
    LET i == BUF_LEN - 1 - count IN
    IF i < 0 THEN [count |-> count, panic |-> TRUE, low |-> i]
    ELSE IF buf[i + 1] # 0 /\ ScanBound(count) THEN ScanTail(buf, count + 1)
    ELSE [count |-> count, panic |-> FALSE, low |-> i]

\* mutant: the two accepting tests are swapped
PaddingCheck_Swapped(partial, expected) ==
    IF partial = UNKNOWN2_LEN THEN "missing"
    ELSE IF UNKNOWN2_LEN - partial = expected THEN "exists"
    ELSE "broken"

\* mutant: the padding found is taken one byte longer than it is
PaddingCheck_OffByOne(partial, expected) ==
    IF UNKNOWN2_LEN - 1 - partial = expected THEN "exists"
    ELSE IF partial = UNKNOWN2_LEN THEN "missing"
    ELSE "broken"

\* the padding cross-check: "exists", "missing" or "broken"
PaddingCheck(partial, expected) ==
    IF UNKNOWN2_LEN - partial = expected THEN "exists"
    ELSE IF partial = UNKNOWN2_LEN THEN "missing"
    ELSE "broken"

\* mutant: the absent padding is handed to parser.warn
FooterWarnings_Collect(padding) ==
    IF padding = "missing" THEN <<"MissingFooterPadding">> ELSE <<>>

\* the warnings the footer read hands to parser.warn for a padding outcome:
\* the code only logs (warn!), it collects nothing
FooterWarnings(padding) == <<>>

\* mutant: the version is looked for 4 bytes further on
VerOffset_WrongBase(partial) == VER_BASE + 4 - partial

\* offset (0-based) of the version in the buffer
VerOffset(partial) == VER_BASE - partial

FooterRet(k, n, w, p, e, pad, low, f) ==
    [kind |-> k, consumed |-> n, warn |-> w, partial |-> p, expected |-> e,
     padding |-> pad, low |-> low, footer |-> f]

\* FbxFooter::read_from_parser at position `count`, header version `ver`, offered `src`
FbxFooter_read_from_parser(src, count, ver) ==
    IF Len(src) < UNKNOWN1_LEN
    THEN FooterRet("Io", Len(src), <<>>, 0, 0, "none", BUF_LEN, NoValue)
    ELSE
    LET unknown1 == SubSeq(src, 1, UNKNOWN1_LEN)
        expected == ExpectedPaddingLen(count + UNKNOWN1_LEN)
    IN
    IF Len(src) < UNKNOWN1_LEN + BUF_LEN
    THEN FooterRet("Io", Len(src), <<>>, 0, expected, "none", BUF_LEN, NoValue)
    ELSE
    LET buf == SubSeq(src, UNKNOWN1_LEN + 1, UNKNOWN1_LEN + BUF_LEN)
        scan == ScanTail(buf, 0)
        partial == scan.count
        end == UNKNOWN1_LEN + BUF_LEN + (UNKNOWN2_LEN - partial)
    IN
    IF scan.panic
    THEN FooterRet("Panic", UNKNOWN1_LEN + BUF_LEN, <<>>, partial, expected, "none",
                   scan.low, NoValue)
    ELSE IF partial > SCAN_LIMIT
    THEN FooterRet("BrokenFbxFooter", UNKNOWN1_LEN + BUF_LEN, <<>>, partial, expected,
                   "none", scan.low, NoValue)
    ELSE IF Len(src) < end
    THEN FooterRet("Io", Len(src), <<>>, partial, expected, "none", scan.low, NoValue)
    ELSE
    LET unknown2 == SubSeq(buf, BUF_LEN - partial + 1, BUF_LEN)
                        \o SubSeq(src, UNKNOWN1_LEN + BUF_LEN + 1, end)
        padding == PaddingCheck(partial, expected)
        w == FooterWarnings(padding)
        ver_offset == VerOffset(partial)
        footer_fbx_version == read_u32(SubSeq(buf, ver_offset + 1, ver_offset + 4))
    IN
    IF padding = "broken"
    THEN FooterRet("BrokenFbxFooter", end, w, partial, expected, padding, scan.low, NoValue)
    ELSE IF ver = None
    THEN FooterRet("Panic", end, w, partial, expected, padding, scan.low, NoValue)
    ELSE IF unwrap(ver) # footer_fbx_version
    THEN FooterRet("HeaderFooterVersionMismatch", end, w, partial, expected, padding,
                   scan.low, NoValue)
    ELSE FooterRet("Ok", end, w, partial, expected, padding, scan.low,
                   [unknown1 |-> unknown1, version |-> footer_fbx_version,
                    unknown2 |-> unknown2])

ParserNew ==
    /\ pos = 0
    /\ fbx_version = None
    /\ warnings = <<>>
    /\ state = "BeforeHeader"
    /\ depth = 0
    /\ nodes = 0
    /\ op = "new"
    /\ kind = "Ok"
    /\ inp = <<>>
    /\ pos0 = 0
    /\ used = 0
    /\ out = NoValue
    /\ event = NoEvent
    /\ hdr = NoValue
    /\ stack = <<>>
    /\ attr = None
    /\ handle = None
    /\ ends = 0
    /\ skipped = 0

\* no loader is running
LoaderIdle ==
    /\ frames = <<>>
    /\ doc = <<>>
    /\ lop = "none"
    /\ lev = NoValue
    /\ lres = NoValue
    /\ calls = <<>>
    /\ order = "asc"

Init == ParserNew /\ LoaderIdle

\* mutant: a failed read ends the parse like a finished one
StateAfter_Finished(k, ok) ==
    IF k = "Ok" THEN ok ELSE IF k = "Panic" THEN "Panicked" ELSE "AfterFooter"

StateAfter(k, ok) == IF k = "Ok" THEN ok ELSE IF k = "Panic" THEN "Panicked" ELSE "Failed"

\* BinaryParser::next_event in BeforeHeader: read_fbx_header, then record the version
NextEventHeader ==
    /\ state = "BeforeHeader"
    /\ \E src \in HeaderInputs :
         LET r == read_fbx_header(src, fbx_version) IN
         /\ pos' = pos + r.consumed
         /\ warnings' = warnings \o r.warn
         /\ fbx_version' = IF r.kind = "Ok" THEN Some(r.version) ELSE fbx_version
         /\ state' = StateAfter(r.kind, "InDocument")
         /\ op' = "read_fbx_header"
         /\ kind' = r.kind
         /\ inp' = src
         /\ pos0' = pos
         /\ used' = r.consumed
         /\ out' = IF r.kind = "Ok" THEN [version |-> r.version] ELSE NoValue
         /\ event' = IF r.kind = "Ok" THEN "StartFbx" ELSE NoEvent
         /\ UNCHANGED <<depth, nodes, hdr>>
         /\ UNCHANGED nodeVars
    /\ UNCHANGED loaderVars

\* read_fbx_header called again on a parser that is past its header
ReadHeaderAgain ==
    /\ state \in {"InDocument", "AfterFooter"}
    /\ \E src \in {MAGIC \o UNKNOWN_BYTES \o le32(v) : v \in {7400, 7500}} :
         LET r == read_fbx_header(src, fbx_version) IN
         /\ pos' = pos + r.consumed
         /\ warnings' = warnings \o r.warn
         /\ fbx_version' = IF r.kind = "Ok" THEN Some(r.version) ELSE fbx_version
         /\ state' = StateAfter(r.kind, state)
         /\ op' = "read_fbx_header"
         /\ kind' = r.kind
         /\ inp' = src
         /\ pos0' = pos
         /\ used' = r.consumed
         /\ out' = IF r.kind = "Ok" THEN [version |-> r.version] ELSE NoValue
         /\ event' = NoEvent
         /\ UNCHANGED <<depth, nodes, hdr>>
         /\ UNCHANGED nodeVars
    /\ UNCHANGED loaderVars

\* sample node-header inputs at position p: a producer writes the three fields
\* pw bytes wide, then the name length, then the name and what follows it
U64(h, l) == [hi |-> h, lo |-> l]
FieldSamples(p) ==
    { <<U64(0, 0), U64(0, 0), U64(0, 0)>>, <<U64(0, 1), U64(0, 0), U64(0, 0)>>,
      <<U64(0, 0), U64(0, 2), U64(0, 0)>>, <<U64(0, 0), U64(0, 0), U64(0, 3)>>,
      <<U64(0, 1), U64(0, 2), U64(0, 3)>>, <<U64(0, p + 40), U64(0, 2), U64(0, 7)>>,
      <<U64(1, 0), U64(0, 0), U64(0, 0)>>, <<U64(0, 0), U64(0, 0), U64(2, 0)>> }
Enc(pw, v) == IF pw = U32_LEN THEN le32(v.lo) ELSE le64(v)
NodeWindow(pw, f, ln) ==
    Enc(pw, f[1]) \o Enc(pw, f[2]) \o Enc(pw, f[3]) \o <<ln>> \o Rep(78, MaxNameLen)
        \o Rep(0, 12)
NodeLenSamples == {12, 13, 24}
\* w: the field width of the document's version; a few inputs are written with
\* the other width, a few are truncated
NodeInputs(p, w) ==
    { NodeWindow(w, f, 1) : f \in FieldSamples(p) }
    \cup { NodeWindow(w, f, ln) :
             f \in { <<U64(0, 0), U64(0, 0), U64(0, 0)>>, <<U64(0, p + 40), U64(0, 0), U64(0, 0)>> },
             ln \in 0..MaxNameLen }
    \cup { NodeWindow(pw, <<U64(0, 1), U64(0, 2), U64(0, 3)>>, ln) :
             pw \in {U32_LEN, U64_LEN}, ln \in {0, 1} }
    \cup { Take(NodeWindow(pw, <<U64(0, p + 40), U64(0, 2), U64(0, 7)>>, 1), n) :
             pw \in {U32_LEN, U64_LEN}, n \in NodeLenSamples }

\* the node headers of the sample documents after their first node: the sentinel,
\* a node that ends ahead, a truncated header
NodeInputsCore(p, w) ==
    { NodeWindow(w, <<U64(0, 0), U64(0, 0), U64(0, 0)>>, 0),
      NodeWindow(w, <<U64(0, p + 40), U64(0, 0), U64(0, 0)>>, 1),
      Take(NodeWindow(w, <<U64(0, p + 40), U64(0, 0), U64(0, 0)>>, 1), 12) }

\* a node of a subtree that holds one attribute
NodeInputsSub(p, w) == { NodeWindow(w, <<U64(0, p + 40), U64(0, 1), U64(0, 7)>>, 1) }

\* sample footer inputs: unknown1, the 144-byte buffer (version v at offset voff,
\* t trailing non-zero bytes), then 16 more bytes
TailMax == 18
Unknown1Samples == { [i \in 1..UNKNOWN1_LEN |-> 200 + i], [i \in 1..UNKNOWN1_LEN |-> i - 1] }
FooterBuf(voff, v, t) ==
    [i \in 1..BUF_LEN |->
        IF i > BUF_LEN - t THEN 100 + (BUF_LEN - i)
        ELSE IF i - 1 \in voff..(voff + 3) THEN le32(v)[i - voff]
        ELSE 0]
Min(a, b) == IF a < b THEN a ELSE b
FooterLenSamples == {15, 159, 170}
FooterWindow(u, voff, v, t) == u \o FooterBuf(voff, v, t) \o Rep(254, UNKNOWN2_LEN)
Unknown1 == [i \in 1..UNKNOWN1_LEN |-> 200 + i]
FooterInputsTail(ver, t) ==
    { FooterWindow(Unknown1, voff, v, t) :
        v \in {ver, ver + 1}, voff \in {4, 10, VER_BASE - Min(t, UNKNOWN2_LEN)} }
    \cup { FooterWindow(u, VER_BASE - Min(t, UNKNOWN2_LEN), ver, t) : u \in Unknown1Samples }
    \cup { Take(FooterWindow(Unknown1, VER_BASE - Min(t, UNKNOWN2_LEN), ver, t), n) :
             n \in FooterLenSamples }
FooterInputs(ver) == UNION { FooterInputsTail(ver, t) : t \in (0..TailMax) \cup {BUF_LEN} }

\* the footers of the sample documents that hold more than one node: for a footer
\* read at position p, the padding present as expected, and the padding absent
FooterInputsCore(ver, p) ==
    { FooterWindow(Unknown1, VER_BASE - t, ver, t) :
        t \in {UNKNOWN2_LEN - ExpectedPaddingLen(p + UNKNOWN1_LEN), UNKNOWN2_LEN} }

\* ------------------------------------------------------------- open nodes
OpenNode(eo, s) == [end_offset |-> eo, sub |-> s]
Top(st) == st[Len(st)]

\* the open nodes once the innermost is closed
Pop(st) == SubSeq(st, 1, Len(st) - 1)

\* the offset t lies beyond every position a sample input reaches (2^31 and more)
Far(t) == t.hi # 0 \/ t.lo < 0

\* no sample source holds the bytes from position p to the offset t
OutOfReach(t, p) == Far(t) \/ t.lo - p > SkipMax

\* a + n for a u64 a and a position n below 2^31
U64Add(a, n) ==
    IF a.lo >= 0 /\ a.lo > 2147483647 - n
    THEN [hi |-> a.hi, lo |-> ((a.lo - 2147483647) + n) - 2147483647 - 2]
    ELSE [hi |-> IF a.lo < 0 /\ a.lo + n >= 0 THEN a.hi + 1 ELSE a.hi, lo |-> a.lo + n]

\* mutant: the confined view lets one byte more through
RoomOf_Inclusive(e, p) == IF e.lo + 1 > p THEN e.lo + 1 - p ELSE 0

\* the bytes a view confined to end offset e lets through at position p
RoomOf(e, p) == IF e.lo > p THEN e.lo - p ELSE 0

\* the bytes the subtree parsers obtained for the open nodes st let through at
\* position p; -1: no subtree parser confines the read
RECURSIVE Room(_, _)
Room(st, p) ==
    IF st = <<>> THEN -1
    ELSE LET rest == Room(Pop(st), p)
             e == Top(st).end_offset
             own == IF ~Top(st).sub \/ Far(e) THEN -1 ELSE RoomOf(e, p)
         IN  IF own = -1 THEN rest ELSE IF rest = -1 THEN own ELSE Min(own, rest)

\* the unread bytes src as the (possibly confined) parser sees them
Confine(src, st, p) == IF Room(st, p) = -1 THEN src ELSE Take(src, Room(st, p))

\* a read that ends at the end of a confined view is a structural error, a read
\* that ends at the end of the source an IO error
ViewErr(src, win, k) == IF k = "Io" /\ Len(win) < Len(src) THEN "MalformedSubtree" ELSE k

\* the attributes of a node that starts with its name read up to position p
\* left: attributes not read yet; end: where the attributes end; cur: where the
\* attribute read last ends; done, reads: how many were read, and how many reads
\* went through the reader() of the last one
Attrs(h, p) ==
    [left |-> h.num_attributes, end |-> U64Add(h.len_attributes, p), cur |-> as_u64(p),
     done |-> 0, reads |-> 0, live |-> TRUE]

\* bytes from p to the end of the attributes a (0: nothing to skip; -1: the end is
\* out of reach)
AttrGap(a, p) ==
    IF a = None THEN 0
    ELSE LET e == unwrap(a).end IN
         IF ~U64Ge(e, p) THEN 0 ELSE IF OutOfReach(e, p) THEN -1 ELSE e.lo - p

\* sample inputs of a skip of `need` bytes (-1: out of reach): the bytes, or too few
SkipInputs(need) ==
    IF need = -1 THEN {Rep(7, 4)}
    ELSE {Rep(7, need)} \cup (IF need > 0 THEN {Rep(7, need - 1)} ELSE {})

\* BinaryParser::next_event in InDocument: skip what is unread of the attributes of
\* the node started last, then decode a node header; a real node reads its name and
\* starts; the sentinel ends the open node, or at the top level reads the footer and
\* ends the document
NextEventNode ==
    /\ state = "InDocument"
    /\ handle = None
    /\ LET gap == AttrGap(attr, pos)
           p1 == IF gap > 0 THEN pos + gap ELSE pos
       IN
       \E raw \in (IF gap = 0 THEN {} ELSE SkipInputs(gap) \ {Rep(7, gap)})
                  \cup { Rep(7, gap) \o w :
                           w \in IF nodes = 0
                                 THEN NodeInputs(p1, FieldLen(unwrap(fbx_version)))
                                 ELSE NodeInputsCore(p1, FieldLen(unwrap(fbx_version)))
                                        \cup (IF \E i \in 1..Len(stack) : stack[i].sub
                                              THEN NodeInputsSub(p1, FieldLen(unwrap(fbx_version)))
                                              ELSE {}) } :
         LET win == Confine(raw, stack, pos)
             src == SubSeq(win, gap + 1, Len(win))
             r == NodeHeader_read_from_parser(src, fbx_version)
         IN
         IF gap = -1 \/ Len(win) < gap
         THEN /\ pos' = pos + Len(win)
              /\ state' = "Failed"
              /\ op' = "next_event"
              /\ kind' = ViewErr(raw, win, "Io")
              /\ inp' = win
              /\ pos0' = pos
              /\ used' = Len(win)
              /\ out' = NoValue
              /\ event' = NoEvent
              /\ UNCHANGED <<fbx_version, warnings, depth, nodes, hdr>>
              /\ UNCHANGED nodeVars
         ELSE IF r.kind # "Ok"
         THEN /\ pos' = p1 + r.consumed
              /\ state' = StateAfter(r.kind, state)
              /\ op' = "NodeHeader::read_from_parser"
              /\ kind' = ViewErr(raw, win, r.kind)
              /\ inp' = src
              /\ pos0' = p1
              /\ used' = r.consumed
              /\ out' = NoValue
              /\ event' = NoEvent
              /\ hdr' = NoValue
              /\ UNCHANGED <<fbx_version, warnings, depth, nodes>>
              /\ UNCHANGED nodeVars
         ELSE IF ~is_node_end(r.hdr)
         THEN /\ nodes < MaxNodes
              /\ depth < MaxDepth
              /\ LET named == Len(src) >= r.consumed + r.hdr.len_name
                     p2 == p1 + r.consumed + r.hdr.len_name
                 IN
                 /\ pos' = IF named THEN p2 ELSE p1 + Len(src)
                 /\ state' = IF named THEN state ELSE "Failed"
                 /\ event' = IF named THEN "StartNode" ELSE NoEvent
                 /\ depth' = IF named THEN depth + 1 ELSE depth
                 /\ stack' = IF named THEN Append(stack, OpenNode(r.hdr.end_offset, FALSE))
                             ELSE stack
                 /\ attr' = IF named THEN Some(Attrs(r.hdr, p2)) ELSE attr
              /\ nodes' = nodes + 1
              /\ op' = "NodeHeader::read_from_parser"
              /\ kind' = r.kind
              /\ inp' = src
              /\ pos0' = p1
              /\ used' = r.consumed
              /\ out' = r.hdr
              /\ hdr' = r.hdr
              /\ UNCHANGED <<fbx_version, warnings, handle, ends, skipped>>
         ELSE IF depth > 0
         THEN /\ pos' = p1 + r.consumed
              /\ depth' = depth - 1
              /\ stack' = Pop(stack)
              /\ attr' = None
              /\ ends' = ends + 1
              /\ event' = "EndNode"
              /\ op' = "NodeHeader::read_from_parser"
              /\ kind' = r.kind
              /\ inp' = src
              /\ pos0' = p1
              /\ used' = r.consumed
              /\ out' = r.hdr
              /\ hdr' = r.hdr
              /\ UNCHANGED <<fbx_version, warnings, state, nodes, handle, skipped>>
         ELSE \E fsrc \in IF nodes <= 1 THEN FooterInputs(unwrap(fbx_version))
                           ELSE FooterInputsCore(unwrap(fbx_version), p1 + r.consumed) :
              LET f == FbxFooter_read_from_parser(fsrc, p1 + r.consumed, fbx_version) IN
              /\ pos' = p1 + r.consumed + f.consumed
              /\ warnings' = warnings \o f.warn
              /\ state' = StateAfter(f.kind, "AfterFooter")
              /\ event' = IF f.kind = "Ok" THEN "EndFbx" ELSE NoEvent
              /\ op' = "FbxFooter::read_from_parser"
              /\ kind' = f.kind
              /\ inp' = fsrc
              /\ pos0' = p1 + r.consumed
              /\ used' = f.consumed
              /\ out' = f
              /\ hdr' = r.hdr
              /\ attr' = None
              /\ UNCHANGED <<fbx_version, depth, nodes, stack, handle, ends, skipped>>
    /\ UNCHANGED loaderVars

\* ------------------------------------------------------ special attribute
\* the type codes b'R' and b'S'
TYPE_BINARY == 82
TYPE_STRING == 83

\* a - n modulo 2^64, for a u64 a and a position n below 2^31
U64Sub(a, n) ==
    IF a.lo >= 0
    THEN IF a.lo >= n THEN [hi |-> a.hi, lo |-> a.lo - n]
         ELSE [hi |-> a.hi - 1, lo |-> a.lo - n]
    ELSE IF a.lo + 2147483647 + 1 >= n THEN [hi |-> a.hi, lo |-> a.lo - n]
         ELSE [hi |-> a.hi, lo |-> ((a.lo + 2147483647) - n) + 2147483647 + 2]

\* v - 1 for a u64 v # 0
U64Dec(v) == U64Sub(v, 1)

\* a <= b for two u64 whose high halves are not negative
U64Le(a, b) == a.hi < b.hi \/ (a.hi = b.hi /\ ~u32_lt(b.lo, a.lo))

\* mutant: the length is counted from the length prefix
AttrEndOffset_FromPrefix(current_pos, byte_length) ==
    U64Add(as_u64(byte_length), current_pos - U32_LEN)

\* `current_pos + byte_length as u64`
AttrEndOffset(current_pos, byte_length) == U64Add(as_u64(byte_length), current_pos)

SpecialAttribute(t, n, e) == [value_type |-> t, byte_length |-> n, end_offset |-> e]

SpecialRet(k, n, h) == [kind |-> k, consumed |-> n, handle |-> h]

\* read_special_attribute at position `count` (the type code is read), offered `src`
read_special_attribute(src, count, type_code) ==
    IF Len(src) < U32_LEN THEN SpecialRet("Io", Len(src), NoValue)
    ELSE IF type_code \notin {TYPE_BINARY, TYPE_STRING} THEN SpecialRet("Panic", U32_LEN, NoValue)
    ELSE LET byte_length == read_u32(SubSeq(src, 1, U32_LEN))
             current_pos == count + U32_LEN
         IN  SpecialRet("Ok", U32_LEN,
                        SpecialAttribute(IF type_code = TYPE_BINARY THEN "Binary" ELSE "String",
                                         byte_length, AttrEndOffset(current_pos, byte_length)))

\* SpecialAttribute::total_len
total_len(h) == as_u64(h.byte_length)

\* SpecialAttribute::rest_len, the source at position `count`
rest_len(h, count) == U64Sub(h.end_offset, count)

\* mutant: the reader is not limited
TakeLen_Unlimited(limit, n) == n

\* io::Take: of n bytes asked for, at most `limit` are let through
TakeLen(limit, n) == IF Far(limit) THEN n ELSE Min(limit.lo, n)

\* Read::read_to_end on the Take: the end of the source ends the read as the limit
\* does, k bytes read
DrainResult(limit, k) == "Ok"

\* str::from_utf8 on the sample values, which hold ASCII bytes or 0xff bytes
Utf8Valid(bytes) == \A i \in 1..Len(bytes) : bytes[i] < 128

\* sample attributes: type code and length prefix
AttrInputs ==
    { <<TYPE_STRING>> \o le32(2), <<TYPE_BINARY>> \o le32(5), <<TYPE_BINARY>> \o le32(0),
      <<TYPE_STRING, 0, 0, 0, 128>>, <<90>> \o le32(2), <<TYPE_STRING, 2, 0>> }
\* the attributes of the sample documents after the first of a node
AttrInputsCore == { <<TYPE_STRING>> \o le32(2) }

\* sizes asked of the reader
ReadSizes == {1, 3}

\* Attributes::next_attribute on the node started last: skip what is unread of the
\* attribute read before, read the type code, and hand a special attribute to
\* read_special_attribute
NextAttribute ==
    /\ state = "InDocument"
    /\ handle = None
    /\ attr # None
    /\ unwrap(attr).live
    /\ ~U64IsZero(unwrap(attr).left)
    /\ unwrap(attr).done < MaxAttrs
    /\ LET a == unwrap(attr)
           gap == IF ~U64Ge(a.cur, pos) THEN 0
                  ELSE IF OutOfReach(a.cur, pos) THEN -1 ELSE a.cur.lo - pos
           p1 == IF gap > 0 THEN pos + gap ELSE pos
       IN
       \E raw \in (IF gap = 0 THEN {} ELSE SkipInputs(gap) \ {Rep(7, gap)})
                  \cup { Rep(7, gap) \o w : w \in IF a.done = 0 THEN AttrInputs ELSE AttrInputsCore } :
         LET win == Confine(raw, stack, pos)
             src == SubSeq(win, gap + 1, Len(win))
             r == read_special_attribute(SubSeq(src, 2, Len(src)), p1 + 1, src[1])
         IN
         IF gap = -1 \/ Len(win) <= gap
         THEN /\ pos' = pos + Len(win)
              /\ state' = "Failed"
              /\ op' = "next_attribute"
              /\ kind' = ViewErr(raw, win, "Io")
              /\ inp' = win
              /\ pos0' = pos
              /\ used' = Len(win)
              /\ out' = NoValue
              /\ UNCHANGED nodeVars
         ELSE IF src[1] \notin {TYPE_BINARY, TYPE_STRING}
         THEN /\ pos' = p1 + 1
              /\ state' = "Failed"
              /\ op' = "next_attribute"
              /\ kind' = "UnknownAttributeType"
              /\ inp' = src
              /\ pos0' = p1
              /\ used' = 1
              /\ out' = NoValue
              /\ UNCHANGED nodeVars
         ELSE /\ pos' = p1 + 1 + r.consumed
              /\ state' = StateAfter(r.kind, state)
              /\ op' = "read_special_attribute"
              /\ kind' = ViewErr(raw, win, r.kind)
              /\ inp' = SubSeq(src, 2, Len(src))
              /\ pos0' = p1 + 1
              /\ used' = r.consumed
              /\ out' = r.handle
              /\ handle' = IF r.kind = "Ok" THEN Some(r.handle) ELSE handle
              /\ attr' = IF r.kind = "Ok"
                         THEN Some([a EXCEPT !.left = U64Dec(@), !.cur = r.handle.end_offset,
                                             !.done = @ + 1, !.reads = 0])
                         ELSE attr
              /\ UNCHANGED <<stack, ends, skipped>>
    /\ event' = NoEvent
    /\ UNCHANGED <<fbx_version, warnings, depth, nodes, hdr>>
    /\ UNCHANGED loaderVars

\* a read of up to n bytes through SpecialAttribute::reader
ReadHandle ==
    /\ state = "InDocument"
    /\ handle # None
    /\ unwrap(attr).reads < MaxReads
    /\ LET h == unwrap(handle)
           limit == rest_len(h, pos)
       IN
       \E n \in ReadSizes, avail \in BOOLEAN :
         LET raw == IF avail THEN Rep(65, n) ELSE <<>>
             k == Min(TakeLen(limit, n), Len(raw)) IN
         /\ pos' = pos + k
         /\ op' = "SpecialAttribute::reader"
         /\ kind' = "Ok"
         /\ inp' = raw
         /\ pos0' = pos
         /\ used' = k
         /\ out' = [rest |-> limit, value |-> Take(raw, k)]
    /\ attr' = Some([unwrap(attr) EXCEPT !.reads = @ + 1])
    /\ event' = NoEvent
    /\ UNCHANGED <<fbx_version, warnings, state, depth, nodes, hdr, stack, handle, ends,
                   skipped>>
    /\ UNCHANGED loaderVars

\* sample inputs of a drain of `limit` bytes: the bytes, one byte too few, and bytes
\* that are no UTF-8 text
DrainInputs(limit) ==
    IF Far(limit) \/ limit.lo > SkipMax THEN {Rep(65, 4)}
    ELSE {Rep(65, limit.lo), Rep(255, limit.lo)}
            \cup (IF limit.lo > 0 THEN {Rep(65, limit.lo - 1)} ELSE {})

\* SpecialAttribute::into_vec: read_to_end on reader()
IntoVec ==
    /\ state = "InDocument"
    /\ handle # None
    /\ LET h == unwrap(handle)
           limit == rest_len(h, pos)
       IN
       \E raw \in DrainInputs(limit) :
         LET k == TakeLen(limit, Len(raw)) IN
         /\ pos' = pos + k
         /\ op' = "SpecialAttribute::into_vec"
         /\ kind' = DrainResult(limit, k)
         /\ inp' = raw
         /\ pos0' = pos
         /\ used' = k
         /\ out' = [rest |-> limit, value |-> Take(raw, k), end_offset |-> h.end_offset]
    /\ handle' = None
    /\ event' = NoEvent
    /\ UNCHANGED <<fbx_version, warnings, state, depth, nodes, hdr, stack, attr, ends, skipped>>
    /\ UNCHANGED loaderVars

\* SpecialAttribute::into_string: read_to_string on reader(), which fails on bytes
\* that are no UTF-8 text
IntoString ==
    /\ state = "InDocument"
    /\ handle # None
    /\ LET h == unwrap(handle)
           limit == rest_len(h, pos)
       IN
       \E raw \in DrainInputs(limit) :
         LET k == TakeLen(limit, Len(raw)) IN
         /\ pos' = pos + k
         /\ op' = "SpecialAttribute::into_string"
         /\ kind' = IF Utf8Valid(Take(raw, k)) THEN DrainResult(limit, k) ELSE "Io"
         /\ inp' = raw
         /\ pos0' = pos
         /\ used' = k
         /\ out' = [rest |-> limit, value |-> Take(raw, k), end_offset |-> h.end_offset]
    /\ handle' = None
    /\ event' = NoEvent
    /\ UNCHANGED <<fbx_version, warnings, state, depth, nodes, hdr, stack, attr, ends, skipped>>
    /\ UNCHANGED loaderVars

\* the SpecialAttribute is dropped with what is unread of its value
DropHandle ==
    /\ state = "InDocument"
    /\ handle # None
    /\ handle' = None
    /\ op' = "drop"
    /\ kind' = "Ok"
    /\ inp' = <<>>
    /\ pos0' = pos
    /\ used' = 0
    /\ out' = NoValue
    /\ event' = NoEvent
    /\ UNCHANGED <<pos, fbx_version, warnings, state, depth, nodes, hdr, stack, attr, ends,
                   skipped>>
    /\ UNCHANGED loaderVars

\* BinaryParser::next_event in AfterFooter: the document has ended, no event is
\* returned and nothing is read
NextEventAfterFooter ==
    /\ state = "AfterFooter"
    /\ op' = "next_event"
    /\ kind' = "Finished"
    /\ inp' = <<>>
    /\ pos0' = pos
    /\ used' = 0
    /\ out' = NoValue
    /\ event' = NoEvent
    /\ UNCHANGED <<pos, fbx_version, warnings, state, depth, nodes, hdr>>
    /\ UNCHANGED nodeVars
    /\ UNCHANGED loaderVars

\* BinaryParser::skip_current_node: read and discard the bytes up to the end_offset
\* of the innermost open node and close it.  An end_offset behind the cursor makes
\* the distance underflow: a panic, or a wrapped distance that reads to the end of
\* the source
SkipCurrentNode ==
    /\ state = "InDocument"
    /\ handle = None
    /\ depth > 0
    /\ LET target == Top(stack).end_offset
           behind == ~U64Ge(target, pos)
           need == IF behind \/ OutOfReach(target, pos) THEN -1 ELSE target.lo - pos
       IN
       \E raw \in SkipInputs(need), k \in (IF behind THEN {"Panic", "Io"} ELSE {"Io"}) :
         LET win == Confine(raw, stack, pos)
             ok == need # -1 /\ Len(win) >= need
             n == IF ok THEN need ELSE IF k = "Panic" THEN 0 ELSE Len(win)
             kd == IF ok THEN "Ok" ELSE ViewErr(raw, win, k)
         IN
         /\ pos' = pos + n
         /\ state' = StateAfter(kd, state)
         /\ depth' = IF ok THEN depth - 1 ELSE depth
         /\ stack' = IF ok THEN Pop(stack) ELSE stack
         /\ attr' = IF ok THEN None ELSE attr
         /\ skipped' = IF ok THEN skipped + 1 ELSE skipped
         /\ op' = "skip_current_node"
         /\ kind' = kd
         /\ inp' = win
         /\ pos0' = pos
         /\ used' = n
         /\ out' = [end_offset |-> target]
         /\ event' = NoEvent
         /\ UNCHANGED <<fbx_version, warnings, nodes, hdr, handle, ends>>
    /\ UNCHANGED loaderVars

\* BinaryParser::subtree_parser on the node that has just started: a view of the
\* parser confined to the bytes before the node's end_offset
SubtreeParser ==
    /\ state = "InDocument"
    /\ handle = None
    /\ depth > 0
    /\ attr # None
    /\ ~Top(stack).sub
    /\ stack' = [stack EXCEPT ![Len(stack)].sub = TRUE]
    /\ op' = "subtree_parser"
    /\ kind' = "Ok"
    /\ inp' = <<>>
    /\ pos0' = pos
    /\ used' = 0
    /\ out' = [end_offset |-> Top(stack).end_offset]
    /\ event' = NoEvent
    /\ attr' = Some([unwrap(attr) EXCEPT !.live = FALSE])
    /\ UNCHANGED <<pos, fbx_version, warnings, state, depth, nodes, hdr, handle, ends,
                   skipped>>
    /\ UNCHANGED loaderVars

Next ==
    \/ NextEventHeader
    \/ ReadHeaderAgain
    \/ NextEventNode
    \/ NextEventAfterFooter
    \/ SkipCurrentNode
    \/ SubtreeParser
    \/ NextAttribute
    \/ ReadHandle
    \/ IntoVec
    \/ IntoString
    \/ DropHandle

Spec == Init /\ [][Next]_vars

\* ------------------------------------------------------------------ record loaders
\* The loaders of loader/binary/simple/fbx7400 are generic in the parser (P: Parser<R>)
\* and see it only through next_event, skip_current_node and subtree_parser, so they
\* are run here on the events a parser delivers, chosen child by child.

\* children the nodes being loaded of a sample document may repeat
MaxRepeat == 1
\* names of the schema those nodes may leave out before their last child
MaxAbsent == 1

RootLoaders == {"Definitions", "FbxHeaderExtension", "Takes"}

\* the names matched by the loader's child-attribute loader, in the order of its arms
ChildNames(l) ==
    CASE l = "Definitions" -> <<"Version", "Count", "ObjectType">>
      [] l = "ObjectType" -> <<"Count", "PropertyTemplate">>
      [] l = "PropertyTemplate" -> <<"Properties70">>
      [] l = "FbxHeaderExtension" ->
            <<"FBXVersion", "FBXHeaderVersion", "EncryptionType", "CreationTimeStamp",
              "Creator", "SceneInfo">>
      [] l = "CreationTimeStamp" ->
            <<"Version", "Year", "Month", "Day", "Hour", "Minute", "Second", "Millisecond">>
      [] l = "SceneInfo" -> <<"Type", "Version", "MetaData", "Properties70">>
      [] l = "MetaData" ->
            <<"Version", "Title", "Subject", "Author", "Keywords", "Revision", "Comment">>
      [] l = "Takes" -> <<"Current", "Take">>
      [] l = "Take" -> <<"FileName", "LocalTime", "ReferenceTime">>

Range(q) == { q[i] : i \in 1..Len(q) }

\* the children kept in a Vec, in the order they are loaded
VecChildren(l) ==
    CASE l = "Definitions" -> {"ObjectType"}
      [] l = "Takes" -> {"Take"}
      [] OTHER -> {}

\* the children kept in a map, keyed by their attribute
MapChildren(l) == IF l = "ObjectType" THEN {"PropertyTemplate"} ELSE {}

\* the children whose field the final Ok(..) of the loader unwraps
RequiredChildren(l) == Range(ChildNames(l)) \ (VecChildren(l) \cup MapChildren(l))

\* the stored type the arm of the name asks of the child's attributes
AttrType(l, n) ==
    CASE n \in {"CreationTimeStamp", "MetaData", "Properties70"} -> "none"
      [] n \in {"ObjectType", "PropertyTemplate", "Creator", "Type", "Current", "Take",
                "FileName", "Title", "Subject", "Author", "Keywords", "Revision",
                "Comment"} -> "String"
      [] n = "SceneInfo" -> "(String, String)"
      [] n \in {"LocalTime", "ReferenceTime"} -> "(i64, i64)"
      [] OTHER -> "i32"

\* mutant: the Creator child is kept without skip_current_node
ChildStep_NoSkip(l, n) ==
    CASE n = "Properties70" -> "Properties70"
      [] n \in {"ObjectType", "PropertyTemplate", "CreationTimeStamp", "SceneInfo",
                "MetaData", "Take"} -> n
      [] n = "Creator" -> "keep"
      [] OTHER -> "skip"

\* what the loader does with a child it matched: "skip" (skip_current_node), the
\* loader it runs on subtree_parser(), or "Properties70" (Properties70::load)
ChildStep(l, n) ==
    CASE n = "Properties70" -> "Properties70"
      [] n \in {"ObjectType", "PropertyTemplate", "CreationTimeStamp", "SceneInfo",
                "MetaData", "Take"} -> n
      [] OTHER -> "skip"

\* separate_name_class: the text before and after the first "\u{0}\u{1}"
separate_name_class(name_class) ==
    LET at == { i \in 1..(Len(name_class) - 1) : name_class[i] = 0 /\ name_class[i + 1] = 1 } IN
    IF at = {} THEN None
    ELSE LET sep_pos == CHOOSE i \in at : \A j \in at : i <= j IN
         Some(<<SubSeq(name_class, 1, sep_pos - 1),
                SubSeq(name_class, sep_pos + 2, Len(name_class))>>)

\* mutant: an attribute stored as i16 is widened to the i32 asked for
from_attributes_Widen(requested, stored) ==
    requested = "none" \/ requested = stored \/ (requested = "i32" /\ stored = "i16")

\* <T>::from_attributes: Some only when the leading attributes are stored as T
from_attributes(requested, stored) == requested = "none" \/ requested = stored

\* a new activation of loader l, called with the attributes a
Frame(l, a) == [loader |-> l, fields |-> {}, items |-> <<>>, attrs |-> a]

\* mutant: only the first field of the final Ok(..) is looked at
MissingField_FirstOnly(l, fields) == ChildNames(l)[1] \notin fields

\* the ok_or_else / ensure_node_exists! chain of the final Ok(..): some field is None
MissingField(l, fields) == \E n \in RequiredChildren(l) : n \notin fields

\* mutant: a loaded child goes to the front of the Vec
PushItem_Front(items, a) == <<a>> \o items

\* Vec::push
PushItem(items, a) == Append(items, a)

\* <Loader>ChildAttrs::load (for load_property_template, its test of the name): the
\* child the loader goes on with, or the error it returns with the name of the node
ChildAttrs_load(l, name, stored) ==
    IF name \notin Range(ChildNames(l)) THEN [kind |-> "UnexpectedNode", name |-> name]
    ELSE IF ~from_attributes(AttrType(l, name), stored)
         THEN [kind |-> "InvalidAttribute", name |-> name]
         ELSE [kind |-> "Ok", name |-> name]

\* the result of a load: kind, the loader that produced it, the name an error
\* carries, the children that loader was delivered, whether it received its EndNode,
\* the Vec it returns, and the calls it made on its parser
LoadRet(k, l, nm, g, c, it, cs) ==
    [kind |-> k, who |-> l, name |-> nm, got |-> g, closed |-> c, items |-> it, calls |-> cs]

\* the frame of the caller once the load of child n, called with a, has returned Ok
Returned(f, n, a) ==
    [f EXCEPT !.fields = @ \cup {n},
              !.items = IF n \in VecChildren(f.loader) THEN PushItem(@, a) ELSE @]

\* the calls of a loader on its parser: those made at its own level, and the numbers
\* of nodes started and closed at and below it
NoCalls == [seq |-> <<>>, starts |-> 0, closes |-> 0]
Called(c, names, st, cl) ==
    [seq |-> c.seq \o names, starts |-> c.starts + st, closes |-> c.closes + cl]

\* --- the sample documents
StartNodeEv(n, st, a) == [type |-> "StartNode", name |-> n, stored |-> st, attrs |-> a]
EndNodeEv == [type |-> "EndNode"]
\* what is kept of a delivered child
Child(e) == [name |-> e.name, attrs |-> e.attrs]

\* the stored types of the leading attributes of a sample child n
StoredSamples(l, n) == ({AttrType(l, n)} \ {"none"}) \cup {"i16", "absent"}

Pos(l, n) ==
    LET i == CHOOSE k \in 1..Len(ChildNames(l)) : ChildNames(l)[k] = n IN
    IF order = "asc" THEN i ELSE Len(ChildNames(l)) + 1 - i

Count(g, n) == Cardinality({ i \in 1..Len(g) : g[i].name = n })

\* the names of loader l that the children g leave out before position p
AbsentBefore(l, g, p) ==
    Cardinality({ m \in Range(ChildNames(l)) : Pos(l, m) < p /\ Count(g, m) = 0 })

LastPos(l, g) == IF g = <<>> THEN 0 ELSE Pos(l, g[Len(g)].name)

\* the children of g that repeat a name
Repeats(g) == Len(g) - Cardinality({ g[i].name : i \in 1..Len(g) })

RECURSIVE AbsentUpTo(_)
AbsentUpTo(k) ==
    IF k = 0 THEN 0
    ELSE AbsentBefore(frames[k].loader, doc[k], LastPos(frames[k].loader, doc[k]))
            + AbsentUpTo(k - 1)

RECURSIVE RepeatsUpTo(_)
RepeatsUpTo(k) == IF k = 0 THEN 0 ELSE Repeats(doc[k]) + RepeatsUpTo(k - 1)

\* names of the schema the node being loaded by l, with children g so far, may hold
\* next in a sample document: in the order of the document, with at most MaxRepeat
\* repeated and MaxAbsent absent names over the nodes being loaded
NextNames(l, g) ==
    { n \in Range(ChildNames(l)) :
        /\ LastPos(l, g) <= Pos(l, n)
        /\ RepeatsUpTo(Len(frames)) + (IF Count(g, n) > 0 THEN 1 ELSE 0) <= MaxRepeat
        /\ AbsentUpTo(Len(frames) - 1) + AbsentBefore(l, g, Pos(l, n)) <= MaxAbsent }

ItemIds == {<<97>>, <<98>>}
NameClassSamples == {<<110, 0, 1, 99>>, <<110, 1, 0, 99>>, <<110, 0>>}

\* the attributes of a sample child n
AttrSamples(l, n) ==
    IF n \in VecChildren(l) THEN ItemIds
    ELSE IF n = "SceneInfo" THEN NameClassSamples
    ELSE {<<97>>}

LoaderInit ==
    /\ ParserNew
    /\ \E l \in RootLoaders, o \in {"asc", "desc"} :
         /\ frames = <<Frame(l, <<97>>)>>
         /\ order = o
    /\ doc = <<<<>>>>
    /\ calls = <<NoCalls>>
    /\ lop = "load"
    /\ lev = NoValue
    /\ lres = NoValue

Running == frames # <<>>
Cur == frames[Len(frames)]
Got == doc[Len(doc)]
CurCalls == calls[Len(calls)]
Deliver(e) == [doc EXCEPT ![Len(doc)] = Append(@, Child(e))]
Call(names, st, cl) == [calls EXCEPT ![Len(calls)] = Called(@, names, st, cl)]

\* an error leaves every running loader through `?`
Unwind(k, l, nm, g, c, cs) ==
    /\ frames' = <<>>
    /\ doc' = <<>>
    /\ calls' = <<>>
    /\ lres' = LoadRet(k, l, nm, g, c, <<>>, cs)

\* one turn of the loop for a child the loader keeps: next_event returns StartNode,
\* the attributes are of the requested type, the field is set and, where the loader
\* does so, skip_current_node is called and returns Ok
LoadSkipChild ==
    /\ Running
    /\ \E n \in NextNames(Cur.loader, Got) :
         \E st \in StoredSamples(Cur.loader, n) :
           LET e == StartNodeEv(n, st, <<97>>)
               skip == ChildStep(Cur.loader, n) = "skip"
           IN
           /\ ChildAttrs_load(Cur.loader, n, st).kind = "Ok"
           /\ ChildStep(Cur.loader, n) \notin
                {"Properties70", "ObjectType", "PropertyTemplate", "CreationTimeStamp",
                 "SceneInfo", "MetaData", "Take"}
           /\ lev' = e
           /\ frames' = [frames EXCEPT ![Len(frames)] = Returned(@, n, e.attrs)]
           /\ doc' = Deliver(e)
           /\ calls' = Call(<<"StartNode">> \o (IF skip THEN <<"skip_current_node">> ELSE <<>>),
                            1, IF skip THEN 1 ELSE 0)
           /\ lop' = IF skip THEN "skip_current_node" ELSE "keep"
    /\ UNCHANGED <<lres, order>>
    /\ UNCHANGED <<pos, fbx_version, warnings, state, depth, nodes, op, kind, inp, pos0, used,
                   out, event, hdr, nodeVars>>

\* one turn of the loop for a child loaded by another loader: that loader starts on
\* subtree_parser(); SceneInfo::load first separates name and class
LoadEnterChild ==
    /\ Running
    /\ \E n \in NextNames(Cur.loader, Got) :
         \E st \in StoredSamples(Cur.loader, n), a \in AttrSamples(Cur.loader, n) :
           LET e == StartNodeEv(n, st, a)
               cs == Called(CurCalls, <<"StartNode", "subtree_parser">>, 1, 0)
           IN
           /\ ChildAttrs_load(Cur.loader, n, st).kind = "Ok"
           /\ ChildStep(Cur.loader, n) \in
                {"ObjectType", "PropertyTemplate", "CreationTimeStamp", "SceneInfo",
                 "MetaData", "Take"}
           /\ lev' = e
           /\ IF n = "SceneInfo" /\ separate_name_class(a) = None
              THEN /\ Unwind("InvalidAttribute", "SceneInfo", "SceneInfo", <<>>, FALSE, NoCalls)
                   /\ lop' = "separate_name_class"
              ELSE /\ frames' = Append(frames, Frame(ChildStep(Cur.loader, n), a))
                   /\ doc' = Append(Deliver(e), <<>>)
                   /\ calls' = Append([calls EXCEPT ![Len(calls)] = cs], NoCalls)
                   /\ lres' = lres
                   /\ lop' = "subtree_parser"
    /\ UNCHANGED order
    /\ UNCHANGED <<pos, fbx_version, warnings, state, depth, nodes, op, kind, inp, pos0, used,
                   out, event, hdr, nodeVars>>

\* one turn of the loop for a Properties70 child: Properties70::load runs on
\* subtree_parser() and returns Ok, the node read to its end, or an error
LoadProperties70 ==
    /\ Running
    /\ \E n \in NextNames(Cur.loader, Got), ok \in BOOLEAN :
         \E st \in StoredSamples(Cur.loader, n) :
           LET e == StartNodeEv(n, st, <<97>>) IN
           /\ ChildAttrs_load(Cur.loader, n, st).kind = "Ok"
           /\ ChildStep(Cur.loader, n) = "Properties70"
           /\ lev' = e
           /\ IF ok
              THEN /\ frames' = [frames EXCEPT ![Len(frames)] = Returned(@, n, e.attrs)]
                   /\ doc' = Deliver(e)
                   /\ calls' = Call(<<"StartNode", "subtree_parser">>, 1, 1)
                   /\ lres' = lres
              ELSE Unwind("Properties70", "Properties70", "", <<>>, FALSE, NoCalls)
    /\ lop' = "Properties70::load"
    /\ UNCHANGED order
    /\ UNCHANGED <<pos, fbx_version, warnings, state, depth, nodes, op, kind, inp, pos0, used,
                   out, event, hdr, nodeVars>>

\* a StartNode the child-attribute loader refuses: a name outside the schema
\* (UnexpectedNode) or attributes that are not of the requested type
\* (InvalidAttribute); the loader returns the error at once
LoadReject ==
    /\ Running
    /\ \E n \in NextNames(Cur.loader, Got) \cup {"Unknown"} :
         \E st \in StoredSamples(Cur.loader, n) :
           LET e == StartNodeEv(n, st, <<97>>)
               r == ChildAttrs_load(Cur.loader, n, st)
           IN
           /\ r.kind # "Ok"
           /\ lev' = e
           /\ Unwind(r.kind, Cur.loader, r.name, Append(Got, Child(e)), FALSE,
                     Called(CurCalls, <<"StartNode">>, 1, 0))
    /\ lop' = "ChildAttrs::load"
    /\ UNCHANGED order
    /\ UNCHANGED <<pos, fbx_version, warnings, state, depth, nodes, op, kind, inp, pos0, used,
                   out, event, hdr, nodeVars>>

\* next_event, the read of the attributes or skip_current_node returns an error of
\* the parser
LoadParserError ==
    /\ Running
    /\ \E where \in {"next_event", "from_attributes", "skip_current_node"} :
         /\ lop' = where
         /\ IF where = "next_event"
            THEN /\ lev' = NoValue
                 /\ Unwind("Parser", Cur.loader, "", Got, FALSE,
                           Called(CurCalls, <<"Err">>, 0, 0))
            ELSE \E n \in NextNames(Cur.loader, Got) :
                   LET e == StartNodeEv(n, AttrType(Cur.loader, n), <<97>>) IN
                   /\ where = "skip_current_node" => ChildStep(Cur.loader, n) = "skip"
                   /\ where = "from_attributes" => AttrType(Cur.loader, n) # "none"
                   /\ lev' = e
                   /\ Unwind("Parser", Cur.loader, "", Append(Got, Child(e)), FALSE,
                             Called(CurCalls,
                                    IF where = "skip_current_node"
                                    THEN <<"StartNode", "skip_current_node">>
                                    ELSE <<"StartNode">>, 1, 0))
    /\ UNCHANGED order
    /\ UNCHANGED <<pos, fbx_version, warnings, state, depth, nodes, op, kind, inp, pos0, used,
                   out, event, hdr, nodeVars>>

\* next_event returns EndNode: the loop breaks and the loader returns Ok(..) or
\* MissingNode; the caller keeps the value and goes on with its own loop
LoadEndNode ==
    /\ Running
    /\ lev' = EndNodeEv
    /\ lop' = "return"
    /\ LET cs == Called(CurCalls, <<"EndNode">>, 0, 0) IN
       IF MissingField(Cur.loader, Cur.fields)
       THEN Unwind("MissingNode", Cur.loader, Cur.loader, Got, TRUE, cs)
       ELSE /\ lres' = LoadRet("Ok", Cur.loader, "", Got, TRUE, Cur.items, cs)
            /\ doc' = SubSeq(doc, 1, Len(doc) - 1)
            /\ frames' = IF Len(frames) = 1 THEN <<>>
                         ELSE [SubSeq(frames, 1, Len(frames) - 1) EXCEPT
                                 ![Len(frames) - 1] = Returned(@, Cur.loader, Cur.attrs)]
            /\ calls' = IF Len(calls) = 1 THEN <<>>
                        ELSE [SubSeq(calls, 1, Len(calls) - 1) EXCEPT
                                ![Len(calls) - 1] = Called(@, <<>>, cs.starts, cs.closes + 1)]
    /\ UNCHANGED order
    /\ UNCHANGED <<pos, fbx_version, warnings, state, depth, nodes, op, kind, inp, pos0, used,
                   out, event, hdr, nodeVars>>

LoaderNext ==
    \/ LoadSkipChild
    \/ LoadEnterChild
    \/ LoadProperties70
    \/ LoadReject
    \/ LoadParserError
    \/ LoadEndNode

LoaderSpec == LoaderInit /\ [][LoaderNext]_vars

\* ================================================================= claims
HeaderOp == "read_fbx_header"
NodeOp == "NodeHeader::read_from_parser"
FooterOp == "FbxFooter::read_from_parser"

\* the header was read by a parser that had read none before
FirstHeaderRead == op = HeaderOp /\ kind # "Panic"

\* C1: read_header offered at least 21 bytes: if they differ from the preamble the
\* call fails with the magic-mismatch error, returns no header, collects no warning and
\* has consumed exactly those 21 bytes; if they equal it, the call never fails with
\* the magic-mismatch error.
C1_MagicMismatch ==
    (FirstHeaderRead /\ Len(inp) >= 21) =>
        IF SubSeq(inp, 1, 21) # MAGIC
        THEN /\ kind = "MagicNotDetected"
             /\ out = NoValue
             /\ fbx_version = None
             /\ warnings = <<>>
             /\ used = 21
             /\ pos = pos0 + 21
        ELSE kind # "MagicNotDetected"

C1_Witness ==
    /\ FirstHeaderRead
    /\ Len(inp) >= 27
    /\ inp[21] # 0
    /\ kind = "MagicNotDetected"

\* C2: read_header offered the preamble and 6 more bytes succeeds whatever the 2 marker
\* bytes are, returns the version held little-endian in the 4 bytes after them, has
\* consumed exactly 27 bytes, and has collected exactly one unexpected-marker warning
\* when the marker is not 0x1a 0x00 and none when it is.
C2_MarkerWarning ==
    (FirstHeaderRead /\ Len(inp) >= 27 /\ SubSeq(inp, 1, 21) = MAGIC) =>
        /\ kind = "Ok"
        /\ le32(out.version) = SubSeq(inp, 24, 27)
        /\ used = 27
        /\ pos = pos0 + 27
        /\ warnings = IF SubSeq(inp, 22, 23) = <<26, 0>> THEN <<>>
                      ELSE <<"UnexpectedBytesAfterMagic">>

C2_Witness ==
    /\ FirstHeaderRead
    /\ kind = "Ok"
    /\ SubSeq(inp, 22, 23) = <<26, 1>>
    /\ warnings = <<"UnexpectedBytesAfterMagic">>

\* C3: a successful read_header leaves the returned version recorded on the parser;
\* once recorded the version never changes; a read_header on a parser that holds a
\* version panics without consuming a byte; no node-header or footer decode panics
\* for want of the version.
C3_VersionOnce ==
    /\ []((op = HeaderOp /\ kind = "Ok") => fbx_version = Some(out.version))
    /\ []((op \in {NodeOp, FooterOp}) => (kind # "Panic" /\ fbx_version # None))
    /\ [][fbx_version # None => fbx_version' = fbx_version]_vars
    /\ [][(fbx_version # None /\ op' = HeaderOp)
            => (kind' = "Panic" /\ used' = 0 /\ pos' = pos)]_vars

C3_Witness ==
    /\ op = HeaderOp
    /\ kind = "Panic"
    /\ fbx_version # None
    /\ nodes > 0
    /\ pos = pos0

\* C4: a successful node-header decode under a version below 7500 consumes exactly 13
\* bytes and returns the three little-endian u32 at offsets 0, 4, 8 zero-extended, as
\* end_offset, num_attributes, len_attributes in this order, and the byte at offset 12
\* as the name length; under a version of 7500 or more it consumes exactly 25 bytes and
\* returns the three little-endian u64 at offsets 0, 8, 16 and the byte at offset 24.
C4_NodeHeaderWidth ==
    (op = NodeOp /\ kind = "Ok") =>
        IF unwrap(fbx_version) < 7500
        THEN /\ used = 13
             /\ le32(out.end_offset.lo) = SubSeq(inp, 1, 4) /\ out.end_offset.hi = 0
             /\ le32(out.num_attributes.lo) = SubSeq(inp, 5, 8) /\ out.num_attributes.hi = 0
             /\ le32(out.len_attributes.lo) = SubSeq(inp, 9, 12) /\ out.len_attributes.hi = 0
             /\ out.len_name = inp[13]
        ELSE /\ used = 25
             /\ le64(out.end_offset) = SubSeq(inp, 1, 8)
             /\ le64(out.num_attributes) = SubSeq(inp, 9, 16)
             /\ le64(out.len_attributes) = SubSeq(inp, 17, 24)
             /\ out.len_name = inp[25]

C4_Witness ==
    /\ op = NodeOp
    /\ kind = "Ok"
    /\ fbx_version = Some(7500)
    /\ used = 25
    /\ out.end_offset = U64(0, 1) /\ out.num_attributes = U64(0, 2)
    /\ out.len_attributes = U64(0, 3)

AllFieldsZero(h) ==
    /\ h.end_offset = U64(0, 0)
    /\ h.num_attributes = U64(0, 0)
    /\ h.len_attributes = U64(0, 0)
    /\ h.len_name = 0

\* C5: a decoded node header with all four fields zero never yields a node-start
\* event: it yields a node-end event, or at the top level the footer read; a header
\* with a non-zero field never yields a node-end event nor the footer read: it starts
\* a node (unless its name is cut short by the end of the input).
C5_SentinelIffAllZero ==
    /\ (op = NodeOp /\ kind = "Ok") =>
          IF AllFieldsZero(hdr) THEN event = "EndNode"
          ELSE event = "StartNode" \/ (event = NoEvent /\ state = "Failed")
    /\ op = FooterOp => AllFieldsZero(hdr)

C5_Witness ==
    /\ op = NodeOp
    /\ event = "StartNode"
    /\ hdr.end_offset = U64(0, 0)
    /\ hdr.num_attributes = U64(0, 0)
    /\ hdr.len_attributes = U64(0, 0)
    /\ hdr.len_name > 0

\* C6 (as claimed): every node header returned as a real node has an end_offset that
\* is not behind the cursor position at which it was read.
C6_EndOffsetNotBehind ==
    (op = NodeOp /\ kind = "Ok" /\ event = "StartNode") => U64Ge(out.end_offset, pos0)

Mod16Padding(p) == (16 - (p % 16)) % 16

\* C7: in a footer read that got past unknown1, with p the position after unknown1,
\* expected_padding_len equals (16 - p mod 16) mod 16, lies in 0..15, is 0 exactly when
\* p is a multiple of 16, and is the least n >= 0 with (p + n) mod 16 = 0.
C7_ExpectedPadding ==
    (op = FooterOp /\ Len(inp) >= 16) =>
        LET p == pos0 + 16
            e == out.expected
        IN  /\ e = Mod16Padding(p)
            /\ e \in 0..15
            /\ (e = 0) <=> (p % 16 = 0)
            /\ (p + e) % 16 = 0
            /\ \A n \in 0..15 : (p + n) % 16 = 0 => e <= n

C7_Witness ==
    /\ op = FooterOp
    /\ Len(inp) >= 16
    /\ (pos0 + 16) % 16 = 0
    /\ out.expected = 0

\* the number of consecutive non-zero bytes at the end of buf
TrailingNonZero(buf) ==
    CHOOSE k \in 0..Len(buf) :
        /\ \A i \in 1..k : buf[Len(buf) + 1 - i] # 0
        /\ (k = Len(buf) \/ buf[Len(buf) - k] = 0)

\* C8: in a footer read that got the 144-byte buffer: if the buffer's last 17 bytes
\* are all non-zero the read fails with the broken-footer error; otherwise partial_len
\* is the number of consecutive non-zero bytes at the buffer's end and lies in 0..16;
\* in both cases the scan reads no index outside 0..143.
C8_TrailingScan ==
    (op = FooterOp /\ Len(inp) >= 160) =>
        LET t == TrailingNonZero(SubSeq(inp, 17, 160)) IN
        /\ kind # "Panic"
        /\ out.low \in 0..143
        /\ IF t >= 17 THEN kind = "BrokenFbxFooter" /\ out.footer = NoValue
           ELSE out.partial = t /\ out.partial \in 0..16

C8_Witness ==
    /\ op = FooterOp
    /\ Len(inp) >= 160
    /\ TrailingNonZero(SubSeq(inp, 17, 160)) = 17
    /\ kind = "BrokenFbxFooter"

\* C9: in a footer read that reached the padding cross-check, partial_len is in 0..16
\* and expected_padding_len in 0..15, and exactly one of three outcomes holds: with
\* 16 - partial_len = expected_padding_len the padding is found as expected, nothing is
\* collected and the read does not fail as broken; otherwise with partial_len = 16 the
\* padding is found absent and the read does not fail as broken; otherwise the read
\* fails with the broken-footer error.
C9_PaddingCrossCheck ==
    (op = FooterOp /\ out.padding # "none") =>
        /\ out.partial \in 0..16
        /\ out.expected \in 0..15
        /\ IF 16 - out.partial = out.expected
           THEN out.padding = "exists" /\ out.warn = <<>> /\ kind # "BrokenFbxFooter"
           ELSE IF out.partial = 16
           THEN out.padding = "missing" /\ kind # "BrokenFbxFooter"
           ELSE out.padding = "broken" /\ kind = "BrokenFbxFooter"

C9_Witness ==
    /\ op = FooterOp
    /\ out.padding = "exists"
    /\ out.partial = 16
    /\ out.expected = 0
    /\ kind = "Ok"

\* C10 (as claimed): a footer read that succeeds with the padding absent although
\* expected (partial_len = 16, expected_padding_len # 0) has added a missing-padding
\* warning to the parser's collected warnings.
C10_MissingPaddingCollected ==
    (op = FooterOp /\ kind = "Ok" /\ out.partial = 16 /\ out.expected # 0) =>
        \E i \in 1..Len(warnings) : warnings[i] = "MissingFooterPadding"

\* C11: a parse whose header is the preamble, the marker 0x1a 0x00 and version 7400,
\* whose 13-byte all-zero sentinel directly follows the header, and whose footer buffer
\* ends in exactly 16 non-zero bytes (partial_len = 16) and holds 7400 at offset
\* 20 - 16 = 4, succeeds: the footer read returns Ok, EndFbx is emitted and no warning
\* has been collected.
C11_Example1 ==
    [][ ( /\ op = HeaderOp /\ kind = "Ok"
          /\ Take(inp, 27) = MAGIC \o <<26, 0>> \o le32(7400)
          /\ op' = FooterOp
          /\ pos0' = pos + 13
          /\ Len(inp') >= 160
          /\ TrailingNonZero(SubSeq(inp', 17, 160)) = 16
          /\ SubSeq(inp', 21, 24) = le32(7400) )
        => ( /\ kind' = "Ok"
             /\ event' = "EndFbx"
             /\ state' = "AfterFooter"
             /\ warnings' = <<>> ) ]_vars

C11_Witness ==
    /\ op = FooterOp
    /\ pos0 = 40
    /\ fbx_version = Some(7400)
    /\ Len(inp) >= 160
    /\ TrailingNonZero(SubSeq(inp, 17, 160)) = 16
    /\ SubSeq(inp, 21, 24) = le32(7400)
    /\ out.partial = 16
    /\ out.expected = 8
    /\ kind = "Ok"
    /\ warnings = <<>>

\* C12: in a footer read whose padding cross-check accepted partial_len, the embedded
\* version is the little-endian u32 at buffer offset 20 - partial_len, which lies inside
\* the 144-byte buffer; the read fails with the header/footer version-mismatch error if
\* and only if that value differs from the version recorded from the header, otherwise
\* it succeeds and the returned footer's version equals the header version.
C12_VersionCrossCheck ==
    (op = FooterOp /\ out.padding \in {"exists", "missing"}) =>
        LET off == 20 - out.partial
            emb == SubSeq(inp, 16 + off + 1, 16 + off + 4)
        IN  /\ out.partial \in 0..16
            /\ off >= 0 /\ off + 4 <= 144
            /\ kind \in {"Ok", "HeaderFooterVersionMismatch"}
            /\ (kind = "HeaderFooterVersionMismatch") <=> (emb # le32(unwrap(fbx_version)))
            /\ kind = "Ok" => /\ out.footer.version = unwrap(fbx_version)
                              /\ le32(out.footer.version) = emb

C12_Witness ==
    /\ op = FooterOp
    /\ out.padding = "exists"
    /\ out.partial = 3
    /\ kind = "HeaderFooterVersionMismatch"

\* C13 (as claimed): a successful footer read that found padding of length p as
\* expected has consumed 144 + p bytes.
C13_FooterSize144 ==
    (op = FooterOp /\ kind = "Ok" /\ out.padding = "exists") => used = 144 + out.expected

\* C13 (amended): a successful footer read that found padding of length p as expected
\* has consumed 160 + p bytes, laid out as 16 bytes unknown1, p bytes padding, 4 bytes,
\* the 4-byte version, 120 bytes, 16 bytes unknown2.
C13_FooterSize160 ==
    (op = FooterOp /\ kind = "Ok" /\ out.padding = "exists") =>
        LET p == out.expected IN
        /\ p \in 0..15
        /\ used = 160 + p
        /\ pos = pos0 + 160 + p
        /\ out.footer.unknown1 = SubSeq(inp, 1, 16)
        /\ le32(out.footer.version) = SubSeq(inp, 16 + p + 4 + 1, 16 + p + 4 + 4)
        /\ out.footer.unknown2 = SubSeq(inp, 16 + p + 4 + 4 + 120 + 1, 160 + p)

C13_Witness ==
    /\ op = FooterOp
    /\ kind = "Ok"
    /\ out.padding = "exists"
    /\ out.expected = 7
    /\ used = 167

SkipOp == "skip_current_node"
SubtreeOp == "subtree_parser"
AttrOp == "read_special_attribute"
ReaderOp == "SpecialAttribute::reader"
IntoVecOp == "SpecialAttribute::into_vec"
IntoStringOp == "SpecialAttribute::into_string"

\* C14 (as claimed): a skip_current_node call leaves the cursor exactly at the
\* end_offset of the node it was called for and does not move it backwards (a call
\* for a node that ends ahead is looked at when the source held the bytes up to
\* end_offset, a call for any other node always).
C14_SkipLandsOnEnd ==
    (op = SkipOp /\ (U64Ge(out.end_offset, pos0) => kind = "Ok")) =>
        (out.end_offset = as_u64(pos) /\ pos >= pos0)

\* what holds of skip_current_node: a call that returns Ok was made with the cursor
\* not past end_offset and leaves it exactly there, with the node closed; no call
\* moves the cursor backwards.
C14_SkipForward ==
    /\ [](op = SkipOp => pos >= pos0)
    /\ []((op = SkipOp /\ kind = "Ok") =>
            (out.end_offset = as_u64(pos) /\ U64Ge(out.end_offset, pos0)))
    /\ [][(op' = SkipOp /\ kind' = "Ok") =>
            (depth' = depth - 1 /\ stack' = SubSeq(stack, 1, Len(stack) - 1)
             /\ out'.end_offset = stack[Len(stack)].end_offset)]_vars

BadFooter(src, ver) ==
    \/ Len(src) < 160
    \/ LET t == TrailingNonZero(SubSeq(src, 17, 160)) IN
       \/ t > 16
       \/ SubSeq(src, 16 + (20 - t) + 1, 16 + (20 - t) + 4) # le32(ver)

\* C16: in a document whose header is directly followed by the all-zero sentinel,
\* the next_event after StartFbx reads the footer without any StartNode or EndNode:
\* it returns EndFbx if the footer read succeeds, and fails without an event if it
\* does not, as it does on a bad footer; once EndFbx was returned no event is
\* returned and no byte is read.
C16_EmptyDocument ==
    /\ [][(op = HeaderOp /\ kind = "Ok" /\ op' = NodeOp /\ kind' = "Ok")
            => ~AllFieldsZero(hdr')]_vars
    /\ [][(op = HeaderOp /\ kind = "Ok" /\ op' = FooterOp) =>
            (/\ event = "StartFbx"
             /\ AllFieldsZero(hdr')
             /\ nodes' = 0 /\ ends' = 0 /\ depth' = 0
             /\ (kind' = "Ok") <=> (event' = "EndFbx")
             /\ (kind' # "Ok") <=> (event' = NoEvent /\ state' = "Failed")
             /\ (kind' = "Ok") <=> (state' = "AfterFooter")
             /\ BadFooter(inp', unwrap(fbx_version)) => kind' # "Ok")]_vars
    /\ [][state = "AfterFooter" =>
            (event' = NoEvent /\ pos' = pos /\ state' \in {"AfterFooter", "Panicked"})]_vars

C16_Witness ==
    /\ op = "next_event"
    /\ kind = "Finished"
    /\ state = "AfterFooter"
    /\ nodes = 0
    /\ pos = 40 + 160 + 8

\* the end offsets the subtree parsers obtained for the open nodes st confine to
SubEnds(st) ==
    { st[i].end_offset.lo : i \in { j \in 1..Len(st) : st[j].sub /\ ~Far(st[j].end_offset) } }

ParserOps == {NodeOp, FooterOp, "next_event", SkipOp, "next_attribute", AttrOp}

AllOps == ParserOps \cup {ReaderOp, IntoVecOp, IntoStringOp}

\* C17 (as claimed): while a subtree parser obtained for a node is in use, no read
\* made through it, the reads of attribute values included, consumes a byte at or
\* beyond that node's end_offset.
C17_NoReadBeyondEnd ==
    [][(op' \in AllOps) => \A e \in SubEnds(stack) : (pos' <= e \/ pos' = pos)]_vars

\* what holds of a subtree parser: while it is in use, no next_event,
\* skip_current_node or attribute decode reads a byte at or beyond the node's
\* end_offset, the events returned are StartNode and EndNode only, and with the
\* cursor at or past end_offset and the subtree's sentinel unread next_event fails
\* (MalformedSubtree, or the IO error of a source that ends there) without an event.
C17_SubtreeConfined ==
    /\ [][(op' \in ParserOps) =>
            \A e \in SubEnds(stack) : (pos' <= e \/ pos' = pos)]_vars
    /\ [][(SubEnds(stack) # {} /\ op' \in ParserOps) =>
            (op' # FooterOp /\ event' \in {"StartNode", "EndNode", NoEvent})]_vars
    /\ [][((\E e \in SubEnds(stack) : e <= pos) /\ op' \in {NodeOp, "next_event"}) =>
            (/\ kind' \in {"MalformedSubtree", "Io"}
             /\ event' = NoEvent
             /\ pos' = pos
             /\ state' = "Failed")]_vars

C17_Witness ==
    /\ op = NodeOp
    /\ kind = "MalformedSubtree"
    /\ event = NoEvent
    /\ used > 0
    /\ \E i \in 1..Len(stack) : stack[i].sub /\ stack[i].end_offset = as_u64(pos)

\* C18 (as claimed): a drain with into_vec or into_string returns exactly the bytes
\* that remained of the value and leaves the cursor at the handle's end_offset, or it
\* fails with an IO error.
C18_DrainAllOrFail ==
    (op \in {IntoVecOp, IntoStringOp}) =>
        \/ kind = "Io"
        \/ (kind = "Ok" /\ as_u64(Len(out.value)) = out.rest /\ as_u64(pos) = out.end_offset)

\* C19: a handle is created with end_offset = (cursor after the length prefix) +
\* byte_length and rest_len = total_len = byte_length, the length read little-endian
\* from the 4-byte prefix; while the handle lives the cursor is not past end_offset,
\* rest_len + cursor = end_offset, and total_len is byte_length; a read through
\* reader() leaves the handle as it is, does not increase rest_len, and no read or
\* drain through the handle moves the cursor past end_offset.
C19_HandleInvariant ==
    /\ [](handle # None =>
            LET h == unwrap(handle) IN
            /\ U64Ge(h.end_offset, pos)
            /\ U64Add(rest_len(h, pos), pos) = h.end_offset
            /\ total_len(h) = as_u64(h.byte_length))
    /\ [][(op' = AttrOp /\ kind' = "Ok") =>
            (/\ handle' # None
             /\ pos' = pos0' + 4
             /\ le32(unwrap(handle').byte_length) = SubSeq(inp', 1, 4)
             /\ U64Sub(unwrap(handle').end_offset, pos') = as_u64(unwrap(handle').byte_length)
             /\ rest_len(unwrap(handle'), pos') = total_len(unwrap(handle')))]_vars
    /\ [][(op' = ReaderOp) =>
            (/\ handle # None /\ handle' = handle
             /\ pos' = pos + used' /\ used' >= 0
             /\ U64Le(rest_len(unwrap(handle), pos'), rest_len(unwrap(handle), pos)))]_vars
    /\ [][(op' \in {ReaderOp, IntoVecOp, IntoStringOp}) =>
            (handle # None /\ pos' >= pos /\ U64Ge(unwrap(handle).end_offset, pos'))]_vars

C19_Witness ==
    /\ op = ReaderOp
    /\ handle # None
    /\ unwrap(handle).byte_length = 5
    /\ used = 3
    /\ rest_len(unwrap(handle), pos) = as_u64(2)

\* the child names each record loader needs for Ok
C20_Required(l) ==
    CASE l = "Definitions" -> {"Version", "Count"}
      [] l = "ObjectType" -> {"Count"}
      [] l = "PropertyTemplate" -> {"Properties70"}
      [] l = "FbxHeaderExtension" ->
            {"FBXHeaderVersion", "FBXVersion", "EncryptionType", "CreationTimeStamp",
             "Creator", "SceneInfo"}
      [] l = "CreationTimeStamp" ->
            {"Version", "Year", "Month", "Day", "Hour", "Minute", "Second", "Millisecond"}
      [] l = "SceneInfo" -> {"Type", "Version", "MetaData", "Properties70"}
      [] l = "MetaData" ->
            {"Version", "Title", "Subject", "Author", "Keywords", "Revision", "Comment"}
      [] l = "Takes" -> {"Current"}
      [] l = "Take" -> {"FileName", "LocalTime", "ReferenceTime"}

NamesOf(g) == { g[i].name : i \in 1..Len(g) }

\* the attributes of the ObjectType and Take children of g, in the order of g
C20_Repeatables(g) ==
    LET sel == SelectSeq(g, LAMBDA e : e.name \in {"ObjectType", "Take"}) IN
    [i \in 1..Len(sel) |-> sel[i].attrs]

\* C20: a record loader returns Ok only after its EndNode and only if every required
\* child name is among the children it was delivered; a loader that receives its
\* EndNode returns Ok if all are among them and the missing-node error if one is
\* not; the missing-node error is returned in no other step than the one that
\* receives the EndNode of the node that lacks the child; the ObjectType and Take
\* children may be absent and are returned in the order of the document.
C20_RequiredChildren ==
    /\ []((lres # NoValue /\ lres.kind = "Ok") =>
            (/\ lres.closed
             /\ C20_Required(lres.who) \subseteq NamesOf(lres.got)
             /\ lres.who \in {"Definitions", "Takes"} =>
                    lres.items = C20_Repeatables(lres.got)))
    /\ []((lres # NoValue /\ lres.kind = "MissingNode") =>
            (/\ lres.closed
             /\ ~(C20_Required(lres.who) \subseteq NamesOf(lres.got))))
    /\ [][(frames # <<>> /\ lev' = [type |-> "EndNode"]) =>
            (/\ lres'.who = frames[Len(frames)].loader
             /\ lres'.got = doc[Len(doc)]
             /\ lres'.closed
             /\ lres'.kind =
                  IF C20_Required(lres'.who) \subseteq NamesOf(lres'.got)
                  THEN "Ok" ELSE "MissingNode")]_vars
    /\ [][(lres' # lres /\ lres'.kind = "MissingNode") =>
            (/\ lev' = [type |-> "EndNode"]
             /\ lres'.who = frames[Len(frames)].loader
             /\ frames' = <<>>)]_vars
    /\ [][(lres' # lres /\ lres'.kind \notin {"Ok", "MissingNode"}) => ~lres'.closed]_vars

C20_Witness ==
    /\ lres # NoValue
    /\ lres.kind = "MissingNode"
    /\ lres.who = "Take"
    /\ NamesOf(lres.got) = {"FileName", "ReferenceTime"}
    /\ lev = [type |-> "EndNode"]

\* a Definitions or Takes node without ObjectType or Take children loads to an empty
\* Vec, one with two of them to both in the order of the document
C20_EmptyVec ==
    lres # NoValue /\ lres.kind = "Ok" /\ lres.who \in {"Definitions", "Takes"}
        /\ lres.items = <<>>
C20_TwoItems ==
    lres # NoValue /\ lres.kind = "Ok" /\ lres.who = "Takes" /\ lres.items = <<<<98>>, <<97>>>>

\* the child names each record loader matches
C21_Schema(l) ==
    C20_Required(l) \cup
        (CASE l = "Definitions" -> {"ObjectType"}
           [] l = "ObjectType" -> {"PropertyTemplate"}
           [] l = "Takes" -> {"Take"}
           [] OTHER -> {})

\* the children whose arm reads no attribute; no other arm asks for an i16
C21_NoAttribute == {"CreationTimeStamp", "MetaData", "Properties70"}

\* the loader returned kind k with name nm right after the StartNode, with no
\* skip_current_node and no subtree_parser for that node, and every loader has returned
C21_ReturnedAtOnce(l, k, nm) ==
    /\ lres' # NoValue
    /\ lres'.kind = k
    /\ lres'.who = l
    /\ lres'.name = nm
    /\ ~lres'.closed
    /\ lres'.calls.seq = calls[Len(calls)].seq \o <<"StartNode">>
    /\ frames' = <<>>

\* C21: a loader that is delivered a StartNode with a name outside its schema returns
\* UnexpectedNode with that name; one that is delivered a known child whose arm reads
\* attributes, with the leading attributes absent or stored as another type than the
\* one asked for (an i16 where an i32 is asked for included), returns InvalidAttribute
\* with the child's name; either way it returns right after that StartNode, without
\* skip_current_node or subtree_parser for the node, and no loader makes a further
\* call; a child of the schema with attributes as asked for is not refused.
C21_UnknownOrIllTyped ==
    /\ [][(frames # <<>> /\ lev' # NoValue /\ lev'.type = "StartNode"
                /\ lev'.name \notin C21_Schema(frames[Len(frames)].loader)) =>
            C21_ReturnedAtOnce(frames[Len(frames)].loader, "UnexpectedNode", lev'.name)]_vars
    /\ [][(frames # <<>> /\ lev' # NoValue /\ lev'.type = "StartNode"
                /\ lev'.name \in C21_Schema(frames[Len(frames)].loader) \ C21_NoAttribute
                /\ lev'.stored \in {"absent", "i16"}) =>
            C21_ReturnedAtOnce(frames[Len(frames)].loader, "InvalidAttribute", lev'.name)]_vars
    /\ [][(frames # <<>> /\ lop' = "ChildAttrs::load") =>
            (/\ lres'.kind \in {"UnexpectedNode", "InvalidAttribute"}
             /\ lres'.kind = "UnexpectedNode" =>
                    lev'.name \notin C21_Schema(frames[Len(frames)].loader)
             /\ lres'.kind = "InvalidAttribute" =>
                    (/\ lev'.name \in C21_Schema(frames[Len(frames)].loader) \ C21_NoAttribute
                     /\ lev'.stored \in {"absent", "i16"}))]_vars
    /\ [][(lres # NoValue /\ lres.kind \in {"UnexpectedNode", "InvalidAttribute"}) =>
            UNCHANGED vars]_vars

C21_Witness ==
    /\ lres # NoValue
    /\ lres.kind = "InvalidAttribute"
    /\ lres.who = "CreationTimeStamp"
    /\ lres.name = "Year"
    /\ lev.stored = "i16"
    /\ Len(lres.got) = 2

\* q is a run of accepted children: each StartNode followed by one skip_current_node
\* or one subtree_parser
C22_Paired(q) ==
    /\ Len(q) % 2 = 0
    /\ \A i \in 1..Len(q) :
         IF i % 2 = 1 THEN q[i] = "StartNode"
         ELSE q[i] \in {"skip_current_node", "subtree_parser"}

\* C22: the calls of every running loader on its parser are a run of StartNode
\* events each followed by exactly one skip_current_node or one subtree_parser, the
\* last of them a subtree_parser whose loader is still running for every loader but
\* the innermost; a loader that returns Ok made such a run and then received one
\* EndNode, its last call, accepted every child it was delivered, and the nodes
\* started at and below its level are as many as those closed by an EndNode or a
\* skip; when a loader returns to its caller the caller goes on at its own level.
C22_BalancedConsumption ==
    /\ [](\A i \in 1..Len(calls) :
            /\ C22_Paired(calls[i].seq)
            /\ i < Len(calls) =>
                 (/\ calls[i].seq # <<>>
                  /\ calls[i].seq[Len(calls[i].seq)] = "subtree_parser"
                  /\ calls[i].starts = calls[i].closes + 1)
            /\ i = Len(calls) => calls[i].starts = calls[i].closes)
    /\ [](Len(calls) = Len(frames) /\ Len(doc) = Len(frames))
    /\ []((lres # NoValue /\ lres.kind = "Ok") =>
            LET q == lres.calls.seq IN
            /\ q # <<>>
            /\ q[Len(q)] = "EndNode"
            /\ C22_Paired(SubSeq(q, 1, Len(q) - 1))
            /\ Len(q) = 2 * Len(lres.got) + 1
            /\ lres.calls.starts = lres.calls.closes
            /\ lres.calls.starts >= Len(lres.got))
    /\ [][(frames' # <<>> /\ Len(frames') < Len(frames)) =>
            (/\ lres'.kind = "Ok"
             /\ Len(frames') = Len(frames) - 1
             /\ calls'[Len(calls')].seq = calls[Len(calls) - 1].seq
             /\ calls'[Len(calls')].starts = calls'[Len(calls')].closes
             /\ doc'[Len(doc')] = doc[Len(doc) - 1])]_vars

C22_Witness ==
    /\ lres # NoValue
    /\ lres.kind = "Ok"
    /\ lres.who = "FbxHeaderExtension"
    /\ lres.calls.starts >= 25
    /\ lres.calls.starts = lres.calls.closes
====
